---- MODULE Spec2Model ----
(***************************************************************************)
(* A model of javasphinx: the Java domain of domain.py (symbol registry,   *)
(* declaration directives, cross-reference creation and resolution) and    *)
(* the batch driver of apidoc.py.                                          *)
(*                                                                         *)
(* Python strings are sequences of one-character strings, so that          *)
(* concatenation, partition and endswith are computed as Python computes   *)
(* them.  Python's None is the distinguished value None below.             *)
(***************************************************************************)
EXTENDS Integers, Sequences, FiniteSets, TLC

\* ------------------------------------------------------------------ bounds

\* The registry holds at most this many entries.
MaxObjects == 2
\* The deepest nesting of directive contents in a document.
MaxOpen == 3
\* The longest Outer.Inner chain of a reference type.
MaxChain == 2
\* The most array dimensions of a type.
MaxDims == 2

\* ------------------------------------------------------------ input alphabets

None == <<"None">>
NoDoc == "None"
Docs == {"a", "b"}
Packages == {<<"p">>}
TypeNames == {<<"A">>}
MemberNames == {<<"m">>}
\* The declarators of a parsed field declaration: "int m;" and "int m, n;".
FieldDeclarators == {<<<<"m">>>>, <<<<"m">>, <<"n">>>>}
\* The parameter types of a parsed method or constructor declaration.
ParamLists == {<<>>}
\* The type names a java:import directive names, and the packages it gives them.
ImportNames == {<<"A">>}
\* What javalang's parser hands back for a signature: a syntax error, a
\* declaration of another kind than the directive expects, or the expected one.
ParseOutcomes == {"JavaSyntaxError", "other", "ok"}
ParseFailures == ParseOutcomes \ {"ok"}
\* The targets of the references written in the documents.
Targets == {<<"A">>, <<"A", "(", ")">>}
\* The same, as written in a role: with or without the leading tilde.
RawTargets == Targets \cup {<<"~">> \o t : t \in Targets}

\* --------------------------------------------------------- string helpers

\* Python truthiness of an optional string: None and '' are false.
Truthy(s) == s # None /\ s # <<>>

\* c in s
Contains(s, c) == \E i \in 1..Len(s) : s[i] = c

\* Index of the first c in s, 0 when absent.
RECURSIVE FirstIndexFrom(_, _, _)
FirstIndexFrom(s, c, i) ==
    IF i > Len(s) THEN 0
    ELSE IF s[i] = c THEN i
    ELSE FirstIndexFrom(s, c, i + 1)

\* Index of the last c in s, 0 when absent.
RECURSIVE LastIndexFrom(_, _, _)
LastIndexFrom(s, c, i) ==
    IF i < 1 THEN 0
    ELSE IF s[i] = c THEN i
    ELSE LastIndexFrom(s, c, i - 1)

\* s.partition(c)[0]: the part before the first c, all of s when c is absent.
PartitionHead(s, c) ==
    LET i == FirstIndexFrom(s, c, 1)
    IN  IF i = 0 THEN s ELSE SubSeq(s, 1, i - 1)

\* s.rpartition(c)[0]: the part before the last c, '' when c is absent.
RPartitionHead(s, c) ==
    LET i == LastIndexFrom(s, c, Len(s))
    IN  IF i = 0 THEN <<>> ELSE SubSeq(s, 1, i - 1)

\* s.endswith(suffix)
EndsWith(s, suffix) ==
    /\ Len(s) >= Len(suffix)
    /\ SubSeq(s, Len(s) - Len(suffix) + 1, Len(s)) = suffix

\* s.lstrip(c)
RECURSIVE LStrip(_, _)
LStrip(s, c) ==
    IF s # <<>> /\ Head(s) = c THEN LStrip(Tail(s), c) ELSE s

\* sep.join(parts)
RECURSIVE Join(_, _)
Join(parts, sep) ==
    IF parts = <<>> THEN <<>>
    ELSE IF Len(parts) = 1 THEN parts[1]
    ELSE parts[1] \o sep \o Join(Tail(parts), sep)

\* filter(None, parts): the truthy elements, in order.
RECURSIVE FilterNone(_)
FilterNone(parts) ==
    IF parts = <<>> THEN <<>>
    ELSE IF Truthy(Head(parts)) THEN <<Head(parts)>> \o FilterNone(Tail(parts))
    ELSE FilterNone(Tail(parts))

\* ------------------------------------------------------------------ state

VARIABLES
    objects,        \* env.domaindata['java']['objects'], in dict iteration order
    docname,        \* env.docname: the document being read, NoDoc between reads
    temp_package,   \* env.temp_data['java:package']
    temp_outertype, \* env.temp_data['java:outertype']
    open_directives, \* the ObjectDescription.run calls that are in their content
    registered,     \* the registrations made by documents not cleared since,
                    \* as <<fullname, docname, superseded>>: superseded when
                    \* another document registered the name later (history,
                    \* kept in the behaviours that begin with it empty)
    type_tree,      \* the javalang type _build_type_node was last called with
    parts,          \* the nodes that call returned
    temp_imports,   \* env.temp_data['java:imports']
    env_imports,    \* env.imports: .exists is FALSE while the attribute is unset
    document_ids,   \* state.document.ids of the document being read
    warnings,       \* warnings the reporter received from the last directive
    node,           \* a pending_xref node awaiting resolution, None when none
    result,         \* what the last resolve_xref call did, None otherwise
    purged,         \* how many entries the last clear_doc call deleted (history)
    opts,           \* apidoc: the options of the run
    source_files,   \* apidoc: the source files of the run, in processing order
    file_index,     \* apidoc: generate_documents' place in source_files
    documents,      \* apidoc: the keys of generate_documents' documents dict
    handled,        \* apidoc: the documents write_documents' first loop has met
    written,        \* apidoc: the output files the run has written
    outfiles,       \* apidoc: the output files that exist on disk
    pc              \* apidoc: where main is

domain_vars == <<objects, docname, temp_package, temp_outertype, temp_imports,
                 env_imports, document_ids, warnings, node, result, purged,
                 open_directives, registered>>
render_vars == <<type_tree, parts>>
apidoc_vars == <<opts, source_files, file_index, documents, handled, written,
                 outfiles, pc>>
vars == <<objects, docname, temp_package, temp_outertype, temp_imports,
          env_imports, document_ids, warnings, node, result, purged,
          open_directives, registered, type_tree, parts, opts, source_files, file_index, documents, handled, written,
          outfiles, pc>>

\* --------------------------------------------------------- the registry

\* fullname in objects
HasObject(objs, fullname) == \E i \in 1..Len(objs) : objs[i].fullname = fullname

\* objects[fullname]
GetObject(objs, fullname) ==
    objs[CHOOSE i \in 1..Len(objs) : objs[i].fullname = fullname]

\* The sequence s with x put in front of position i.
InsertAt(s, i, x) == SubSeq(s, 1, i - 1) \o <<x>> \o SubSeq(s, i, Len(s))

\* The sequence s without position i.
RemoveAt(s, i) == SubSeq(s, 1, i - 1) \o SubSeq(s, i + 1, Len(s))

\* The assignment as it would be if the registry kept the entries a name had
\* before beside the new one.
SetObject_keeping(objs, entry, objs2) == objs2 = Append(objs, entry)

\* objects[fullname] = entry.  A key already present keeps its place in the
\* iteration order; a new key lands wherever its hash puts it, which is any
\* place: the dict's iteration order is arbitrary.
SetObject(objs, entry, objs2) ==
    IF HasObject(objs, entry.fullname)
    THEN objs2 = [i \in 1..Len(objs) |->
                    IF objs[i].fullname = entry.fullname THEN entry ELSE objs[i]]
    ELSE \E i \in 1..(Len(objs) + 1) : objs2 = InsertAt(objs, i, entry)

\* The registry has room for fullname (the model's bound on its size).
Room(objs, fullname) == HasObject(objs, fullname) \/ Len(objs) < MaxObjects

\* del objects[fullname]
DelObject(objs, fullname) ==
    IF HasObject(objs, fullname)
    THEN RemoveAt(objs, CHOOSE i \in 1..Len(objs) : objs[i].fullname = fullname)
    ELSE objs

\* An import map: simple type name -> package; a name it lacks reads as None.
EmptyImports == [t \in {} |-> None]
ImportsGet(map, t) == IF t \in DOMAIN map THEN map[t] ELSE None
ImportsSet(map, t, package) ==
    [x \in (DOMAIN map) \cup {t} |-> IF x = t THEN package ELSE map[x]]

\* The value of `node` when no pending_xref node is kept.  A node holds its
\* reftarget and its java:package, java:imported and java:outertype keys; a
\* key the node lacks reads as None (node.get).
NoNode == [target |-> <<>>, package |-> None, imported |-> "None", outertype |-> None]
\* The value of `result` when the last step was no resolve_xref call.
NoResult == [outcome |-> "none", typ |-> "none", fullname |-> <<>>, calls |-> <<>>,
             package |-> None, imported |-> "None"]

\* ------------------------------------------------- JavaDomain.clear_doc

\* The loop of clear_doc over objects.items(), a list made before the loop.
RECURSIVE clear_doc_loop(_, _, _)
clear_doc_loop(items, objs, d) ==
    IF items = <<>> THEN objs
    ELSE clear_doc_loop(Tail(items),
                        IF Head(items).docname = d
                        THEN DelObject(objs, Head(items).fullname)
                        ELSE objs,
                        d)

\* clear_doc as it would be with the loop run over the dict itself instead
\* of a list of its items: the entry after a deleted one is skipped.
RECURSIVE clear_doc_live_loop(_, _, _)
clear_doc_live_loop(objs, i, d) ==
    IF i > Len(objs) THEN objs
    ELSE IF objs[i].docname = d
    THEN clear_doc_live_loop(RemoveAt(objs, i), i + 1, d)
    ELSE clear_doc_live_loop(objs, i + 1, d)

clear_doc_live(objs, d) == clear_doc_live_loop(objs, 1, d)

clear_doc(objs, d) == clear_doc_loop(objs, objs, d)

\* ------------------------------------------ JavaObject: package, type, name

get_package(opt_package) ==
    IF opt_package # None THEN opt_package ELSE temp_package

get_type(opt_outertype) ==
    IF opt_outertype # None THEN opt_outertype ELSE Join(temp_outertype, <<".">>)

\* The join as it would be without the filter: '.'.join((package or '', type, name))
FullName_unfiltered(package, type, name) ==
    Join(<<IF package = None THEN <<>> ELSE package, type, name>>, <<".">>)

\* '.'.join(filter(None, (package, type, name)))
FullName(package, type, name) == Join(FilterNone(<<package, type, name>>), <<".">>)

\* The value of registered in the behaviours that keep no history.
NoHistory == {<<"none">>}

\* The history of a registration: fullname is now registered by the document
\* being read, which supersedes the registrations other documents made of it.
Register(fullname) ==
    registered' =
        IF registered = NoHistory THEN NoHistory
        ELSE {<<r[1], r[2], TRUE>> : r \in {x \in registered :
                                             x[1] = fullname /\ x[2] # docname}}
             \cup {r \in registered : r[1] # fullname}
             \cup {<<fullname, docname, FALSE>>}

\* The history of a clear_doc(d): the registrations of d are forgotten.
Unregister(d) ==
    registered' = IF registered = NoHistory THEN NoHistory
                  ELSE {r \in registered : r[2] # d}

\* add_target_and_index as it would be if a duplicate were warned about and
\* then left alone (the first registration kept).
add_target_and_index_first_wins(name, objtype, opt_package, opt_outertype) ==
    LET fullname == FullName(get_package(opt_package), get_type(opt_outertype), name)
    IN  IF fullname \notin document_ids
        THEN /\ document_ids' = document_ids \cup {fullname}
             /\ warnings' = IF HasObject(objects, fullname) THEN 1 ELSE 0
             /\ Room(objects, fullname)
             /\ Register(fullname)
             /\ IF HasObject(objects, fullname)
                THEN UNCHANGED objects
                ELSE SetObject(objects,
                               [fullname |-> fullname, docname |-> docname,
                                objtype |-> objtype,
                                basename |-> PartitionHead(fullname, "(")],
                               objects')
        ELSE /\ warnings' = 0
             /\ UNCHANGED <<objects, registered, document_ids>>

\* JavaObject.add_target_and_index: the registry, the document's ids and the
\* reporter after it.
add_target_and_index(name, objtype, opt_package, opt_outertype) ==
    LET package == get_package(opt_package)
        type == get_type(opt_outertype)
        fullname == FullName(package, type, name)
        basename == PartitionHead(fullname, "(")
    IN  IF fullname \notin document_ids
        THEN /\ document_ids' = document_ids \cup {fullname}
             /\ warnings' = IF HasObject(objects, fullname) THEN 1 ELSE 0
             /\ Room(objects, fullname)
             /\ SetObject(objects,
                          [fullname |-> fullname, docname |-> docname,
                           objtype |-> objtype, basename |-> basename],
                          objects')
             /\ Register(fullname)
        ELSE /\ warnings' = 0
             /\ UNCHANGED <<objects, registered, document_ids>>

\* ObjectDescription.run up to before_content, for a signature that
\* handle_signature turned into name: the target is noted unless :noindex:.
Describe(name, objtype, noindex, opt_package, opt_outertype) ==
    IF noindex
    THEN /\ warnings' = 0
         /\ UNCHANGED <<objects, registered, document_ids>>
    ELSE add_target_and_index(name, objtype, opt_package, opt_outertype)

\* A directive whose handle_signature raised self.error(...): docutils reports
\* the error and the directive does nothing else.
Aborted ==
    /\ warnings' = 0
    /\ UNCHANGED <<objects, registered, document_ids, temp_outertype, open_directives>>

\* JavaObject.before_content: self.set_type, for a directive of this objtype
\* whose handled signatures gave it these names.
set_type(objtype, names) == objtype = "type" /\ names # <<>>

\* JavaObject.before_content: what it makes of env.temp_data['java:outertype'].
before_content(objtype, names, chain) ==
    IF set_type(objtype, names) THEN Append(chain, names[1]) ELSE chain

\* after_content as it would be if it popped whatever before_content did.
after_content_always_pops(was_set, chain) ==
    IF chain # <<>> THEN SubSeq(chain, 1, Len(chain) - 1) ELSE chain

\* JavaObject.after_content, for the set_type its before_content left.
after_content(was_set, chain) ==
    IF was_set THEN SubSeq(chain, 1, Len(chain) - 1) ELSE chain

\* ObjectDescription.run reaches the directive's content: before_content has
\* run, the content is being parsed.  chain keeps what the outer-type chain
\* was when the directive began (history).
EnterContent(objtype, names) ==
    /\ Len(open_directives) < MaxOpen
    /\ open_directives' =
         Append(open_directives,
                [objtype |-> objtype, names |-> names,
                 set_type |-> set_type(objtype, names),
                 chain |-> temp_outertype])
    /\ temp_outertype' = before_content(objtype, names, temp_outertype)

\* ObjectDescription.run for a directive without content: before_content and
\* after_content run one after the other.
NoContent(objtype, names) ==
    /\ temp_outertype' =
         after_content(set_type(objtype, names),
                       before_content(objtype, names, temp_outertype))
    /\ UNCHANGED open_directives

\* What every directive leaves alone.
DirectiveFrame ==
    /\ result' = NoResult
    /\ purged' = 0
    /\ UNCHANGED <<docname, node>>
    /\ UNCHANGED <<apidoc_vars, render_vars>>

OptPackages == {None} \cup Packages
OptOuterTypes == {None} \cup TypeNames

\* ------------------------------------------------------ reading documents

\* The build starts reading document d: its old entries are cleared
\* (clear_doc), and it gets an empty temp_data and a new document.
read_doc(d) ==
    /\ docname = NoDoc
    /\ objects' = clear_doc(objects, d)
    /\ Unregister(d)
    /\ purged' = Len(objects) - Len(objects')
    /\ docname' = d
    /\ temp_package' = None
    /\ temp_outertype' = <<>>
    /\ temp_imports' = EmptyImports
    /\ document_ids' = {}
    /\ warnings' = 0
    /\ result' = NoResult
    /\ UNCHANGED <<env_imports, node, open_directives>>
    /\ UNCHANGED <<apidoc_vars, render_vars>>

\* The document is read to its end, every directive's content with it:
\* temp_data is cleared.
finish_doc ==
    /\ docname # NoDoc
    /\ open_directives = <<>>
    /\ docname' = NoDoc
    /\ temp_package' = None
    /\ temp_imports' = EmptyImports
    /\ document_ids' = {}
    /\ warnings' = 0
    /\ result' = NoResult
    /\ purged' = 0
    /\ temp_outertype' = <<>>
    /\ UNCHANGED <<objects, registered, env_imports, node, open_directives>>
    /\ UNCHANGED <<apidoc_vars, render_vars>>

\* A document is removed from the build: JavaDomain.clear_doc(d).
remove_doc(d) ==
    /\ docname = NoDoc
    /\ objects' = clear_doc(objects, d)
    /\ Unregister(d)
    /\ purged' = Len(objects) - Len(objects')
    /\ warnings' = 0
    /\ result' = NoResult
    /\ UNCHANGED <<docname, temp_package, temp_outertype, temp_imports,
                   env_imports, document_ids, node, open_directives>>
    /\ UNCHANGED <<apidoc_vars, render_vars>>

\* ------------------------------------------------------------ directives

\* JavaPackage.run
java_package(package, noindex) ==
    /\ docname # NoDoc
    /\ temp_package' = package
    /\ Room(objects, package)
    /\ SetObject(objects,
                 [fullname |-> package, docname |-> docname,
                  objtype |-> "package", basename |-> package],
                 objects')
    /\ Register(package)
    /\ document_ids' = IF noindex THEN document_ids
                       ELSE document_ids \cup {<<"package-">> \o package}
    /\ warnings' = 0
    /\ UNCHANGED <<temp_outertype, temp_imports, env_imports, open_directives>>
    /\ DirectiveFrame

\* JavaImport.run
java_import(package, typename) ==
    /\ docname # NoDoc
    /\ env_imports' = [exists |-> TRUE,
                       java_imports |-> ImportsSet(env_imports.java_imports,
                                                   typename, package)]
    /\ temp_imports' = ImportsSet(temp_imports, typename, package)
    /\ warnings' = 0
    /\ UNCHANGED <<objects, registered, temp_package, temp_outertype, document_ids,
                   open_directives>>
    /\ DirectiveFrame

\* JavaType.handle_type_signature: the name it returns.
handle_type_signature(member_name) == member_name

\* A java:type directive up to its content: handle_type_signature,
\* add_target_and_index, before_content.  The documents describe Java
\* declarations, in which no type is nested in a type of its own name.
java_type(outcome, member_name, noindex, opt_package, opt_outertype) ==
    /\ docname # NoDoc
    /\ ~Contains(temp_outertype, member_name)
    /\ IF outcome # "ok"
       THEN Aborted
       ELSE /\ Describe(handle_type_signature(member_name), "type", noindex,
                        opt_package, opt_outertype)
            /\ EnterContent("type", <<handle_type_signature(member_name)>>)
    /\ UNCHANGED <<temp_package, temp_imports, env_imports>>
    /\ DirectiveFrame

\* The end of the content of the innermost directive that is in its content:
\* after_content, and ObjectDescription.run returns.
leave_content ==
    /\ docname # NoDoc
    /\ open_directives # <<>>
    /\ temp_outertype' =
         after_content(open_directives[Len(open_directives)].set_type,
                       temp_outertype)
    /\ open_directives' = SubSeq(open_directives, 1, Len(open_directives) - 1)
    /\ warnings' = 0
    /\ UNCHANGED <<objects, registered, temp_package, temp_imports, env_imports,
                   document_ids>>
    /\ DirectiveFrame

\* The end of a java:type directive's content.
end_type ==
    /\ open_directives # <<>>
    /\ open_directives[Len(open_directives)].objtype = "type"
    /\ leave_content


\* JavaField.handle_field_signature: the name it returns.  The error for
\* several declarators is built and dropped (no raise), so the first
\* declarator's name is returned whatever their number.
handle_field_signature(declarators) == declarators[1]

\* A java:field directive: handle_field_signature, add_target_and_index;
\* before_content and after_content leave the outer-type chain alone.
java_field_directive(outcome, declarators, noindex, opt_package, opt_outertype, has_content) ==
    /\ docname # NoDoc
    /\ IF outcome # "ok"
       THEN Aborted
       ELSE /\ Describe(handle_field_signature(declarators), "field", noindex,
                        opt_package, opt_outertype)
            /\ IF has_content
               THEN EnterContent("field", <<handle_field_signature(declarators)>>)
               ELSE NoContent("field", <<handle_field_signature(declarators)>>)
    /\ UNCHANGED <<temp_package, temp_imports, env_imports>>
    /\ DirectiveFrame

\* A java:field directive without content.
java_field(outcome, declarators, noindex, opt_package, opt_outertype) ==
    java_field_directive(outcome, declarators, noindex, opt_package, opt_outertype, FALSE)

\* JavaMethod.handle_method_signature: member.name + '(' + ', '.join(...) + ')'
handle_method_signature(member_name, param_reprs) ==
    member_name \o <<"(">> \o Join(param_reprs, <<",", " ">>) \o <<")">>

\* A java:method directive.
java_method_directive(outcome, member_name, param_reprs, noindex, opt_package, opt_outertype, has_content) ==
    /\ docname # NoDoc
    /\ IF outcome # "ok"
       THEN Aborted
       ELSE /\ Describe(handle_method_signature(member_name, param_reprs),
                        "method", noindex, opt_package, opt_outertype)
            /\ IF has_content
               THEN EnterContent("method", <<handle_method_signature(member_name, param_reprs)>>)
               ELSE NoContent("method", <<handle_method_signature(member_name, param_reprs)>>)
    /\ UNCHANGED <<temp_package, temp_imports, env_imports>>
    /\ DirectiveFrame

\* A java:method directive without content.
java_method(outcome, member_name, param_reprs, noindex, opt_package, opt_outertype) ==
    java_method_directive(outcome, member_name, param_reprs, noindex, opt_package, opt_outertype, FALSE)

\* JavaConstructor.handle_constructor_signature: '%s(%s)' % (name, ', '.join(...))
handle_constructor_signature(member_name, param_reprs) ==
    member_name \o <<"(">> \o Join(param_reprs, <<",", " ">>) \o <<")">>

\* A java:constructor directive.
java_constructor_directive(outcome, member_name, param_reprs, noindex, opt_package, opt_outertype, has_content) ==
    /\ docname # NoDoc
    /\ IF outcome # "ok"
       THEN Aborted
       ELSE /\ Describe(handle_constructor_signature(member_name, param_reprs),
                        "constructor", noindex, opt_package, opt_outertype)
            /\ IF has_content
               THEN EnterContent("constructor", <<handle_constructor_signature(member_name, param_reprs)>>)
               ELSE NoContent("constructor", <<handle_constructor_signature(member_name, param_reprs)>>)
    /\ UNCHANGED <<temp_package, temp_imports, env_imports>>
    /\ DirectiveFrame

\* A java:constructor directive without content.
java_constructor(outcome, member_name, param_reprs, noindex, opt_package, opt_outertype) ==
    java_constructor_directive(outcome, member_name, param_reprs, noindex, opt_package, opt_outertype, FALSE)

\* ------------------------------------------------------------ references

\* The keys of JavaDomain.object_types.
Kinds == {"package", "type", "field", "constructor", "method"}
\* The keys of JavaDomain.roles.
Roles == {"package", "type", "field", "construct", "meth", "ref"}
\* The roles of the nodes a doc field makes: typerolename and rolename of
\* doc_field_types.
FieldRoles == {"type", "ref"}

\* process_link's "strip a method component from the target".
BaseType(target) ==
    IF Contains(target, "(")
    THEN LET basetype == PartitionHead(target, "(")
         IN  IF Contains(basetype, ".") THEN RPartitionHead(basetype, ".") ELSE basetype
    ELSE target

\* The java:imported and java:package keys both _build_ref_node and
\* process_link set, from the import (if any) of the name looked up.
RefKeys(target, imported_package, current_package, outertype) ==
    IF Truthy(imported_package)
    THEN [target |-> target, package |-> imported_package,
          imported |-> "True", outertype |-> outertype]
    ELSE [target |-> target, package |-> current_package,
          imported |-> "False", outertype |-> outertype]

\* What every reference-making step leaves alone.
ReferenceFrame ==
    /\ docname # NoDoc
    /\ warnings' = 0
    /\ result' = NoResult
    /\ purged' = 0
    /\ UNCHANGED <<objects, registered, docname, temp_package, temp_outertype,
                   temp_imports, env_imports, document_ids, open_directives>>
    /\ UNCHANGED <<apidoc_vars, render_vars>>

\* JavaXRefRole.process_link, for a role written in the document being read.
process_link(raw_target) ==
    LET outertype == Join(temp_outertype, <<".">>)
        target == LStrip(raw_target, "~")
        package == ImportsGet(temp_imports, BaseType(target))
    IN  /\ node' = RefKeys(target, package, temp_package, outertype)
        /\ ReferenceFrame

\* JavaObject._build_ref_node, for a type named in the signature of a
\* directive with these options.
build_ref_node(target, opt_package, opt_outertype) ==
    LET package == ImportsGet(temp_imports, target)
    IN  /\ node' = RefKeys(target, package, get_package(opt_package),
                           get_type(opt_outertype))
        /\ ReferenceFrame

\* The pending_xref a doc field (a parameter's type, a throws argument) makes:
\* it goes through no role, so it has none of the java:* keys.
doc_field_xref(target) ==
    /\ node' = [target |-> target, package |-> None, imported |-> "None",
                outertype |-> None]
    /\ ReferenceFrame

\* The suffix loop as it would be if a basename match, once found, were kept.
RECURSIVE suffix_loop_first(_, _, _, _)
suffix_loop_first(items, suffix, basename_suffix, basename_match) ==
    IF items = <<>> THEN basename_match
    ELSE IF EndsWith(Head(items).fullname, suffix) THEN Head(items).fullname
    ELSE IF EndsWith(Head(items).basename, basename_suffix) /\ basename_match = None
         THEN suffix_loop_first(Tail(items), suffix, basename_suffix, Head(items).fullname)
    ELSE suffix_loop_first(Tail(items), suffix, basename_suffix, basename_match)

\* The suffix loop of resolve_xref over objects.items(): the fullname it
\* returns at once, or else the last basename match, or else None.
RECURSIVE suffix_loop(_, _, _, _)
suffix_loop(items, suffix, basename_suffix, basename_match) ==
    IF items = <<>> THEN basename_match
    ELSE IF EndsWith(Head(items).fullname, suffix) THEN Head(items).fullname
    ELSE IF EndsWith(Head(items).basename, basename_suffix)
         THEN suffix_loop(Tail(items), suffix, basename_suffix, Head(items).fullname)
    ELSE suffix_loop(Tail(items), suffix, basename_suffix, basename_match)

\* The package resolve_xref works with: for the 'ref' role the one env.imports
\* has for the target (None when it has none), unless env.imports is unset.
EffectivePackage(typ, n) ==
    IF typ = "ref" /\ env_imports.exists
    THEN ImportsGet(env_imports.java_imports, n.target)
    ELSE n.package

\* The imported flag resolve_xref works with.
EffectiveImported(typ, n) ==
    IF typ = "ref" /\ env_imports.exists
       /\ Truthy(ImportsGet(env_imports.java_imports, n.target))
    THEN "True"
    ELSE n.imported

\* The internal steps as they would be with the package-prefixed name tried
\* before the target itself.
InternalMatch_package_first(objs, target, package, type_context) ==
    IF Truthy(package) /\ HasObject(objs, package \o <<".">> \o target)
    THEN package \o <<".">> \o target
    ELSE IF HasObject(objs, target) THEN target
    ELSE IF Truthy(package) /\ Truthy(type_context)
            /\ HasObject(objs, package \o <<".">> \o type_context \o <<".">> \o target)
    THEN package \o <<".">> \o type_context \o <<".">> \o target
    ELSE LET suffix == <<".">> \o target
         IN  suffix_loop(objs, suffix, PartitionHead(suffix, "("), None)

\* The internal steps of resolve_xref: the fullname found, None when none is.
InternalMatch(objs, target, package, type_context) ==
    IF HasObject(objs, target) THEN target
    ELSE IF Truthy(package) /\ HasObject(objs, package \o <<".">> \o target)
    THEN package \o <<".">> \o target
    ELSE IF Truthy(package) /\ Truthy(type_context)
            /\ HasObject(objs, package \o <<".">> \o type_context \o <<".">> \o target)
    THEN package \o <<".">> \o type_context \o <<".">> \o target
    ELSE LET suffix == <<".">> \o target
         IN  suffix_loop(objs, suffix, PartitionHead(suffix, "("), None)

\* JavaDomain.resolve_xref for the kept node, the registry apart; ext1 and
\* ext2 are what extdoc.get_javadoc_ref answers to the first and the second
\* call.
resolve_xref_lookup(typ, ext1, ext2) ==
    LET target == node.target
        package == EffectivePackage(typ, node)
        imported == EffectiveImported(typ, node)
        found == InternalMatch(objects, target, package, node.outertype)
        base == [outcome |-> "none", typ |-> typ, fullname |-> <<>>, calls |-> <<>>,
                 package |-> package, imported |-> imported]
    IN  /\ docname = NoDoc
        /\ node # NoNode
        /\ node.imported = "None" => typ \in FieldRoles
        /\ result' =
             IF found # None
             THEN [base EXCEPT !.outcome = "internal", !.fullname = found]
             ELSE IF ext1
             THEN [base EXCEPT !.outcome = "external", !.calls = <<target>>]
             ELSE IF imported # "True"
             THEN [base EXCEPT !.outcome = "None", !.calls = <<target>>]
             ELSE IF package = None
             THEN [base EXCEPT !.outcome = "TypeError", !.calls = <<target>>]
             ELSE [base EXCEPT !.outcome = IF ext2 THEN "external" ELSE "None",
                               !.calls = <<target, package \o <<".">> \o target>>]
        /\ warnings' = 0
        /\ purged' = 0
        /\ UNCHANGED <<docname, temp_package, temp_outertype, temp_imports,
                       env_imports, document_ids, node, open_directives, registered>>
        /\ UNCHANGED <<apidoc_vars, render_vars>>

\* resolve_xref as it would be if it took the entry it resolved to out of
\* the registry (objects.pop(fullname) for objects[fullname]).
resolve_xref_consuming(typ, ext1, ext2) ==
    /\ resolve_xref_lookup(typ, ext1, ext2)
    /\ objects' = IF result'.outcome = "internal"
                  THEN DelObject(objects, result'.fullname)
                  ELSE objects

\* JavaDomain.resolve_xref: it tests membership in the registry, reads
\* entries and iterates over items(), and assigns nothing.
resolve_xref(typ, ext1, ext2) ==
    /\ resolve_xref_lookup(typ, ext1, ext2)
    /\ UNCHANGED objects

\* ------------------------------------------------------ rendering of types

\* No type: the sub_type of the last link, the type of a '?' argument.
NoType == [kind |-> "none"]

\* typ.dimensions as javalang has it: one None for each dimension.
Dimensions(n) == [i \in 1..n |-> "None"]

\* A ReferenceType link.
ReferenceType(name, dimensions, arguments, sub_type) ==
    [kind |-> "reference", name |-> name, dimensions |-> dimensions,
     arguments |-> arguments, sub_type |-> sub_type]

\* The generic arguments: ?, S[] and ? extends S.
Wildcard == [pattern_type |-> "?", type |-> NoType]
ArrayArgument ==
    [pattern_type |-> "None", type |-> ReferenceType("S", Dimensions(1), <<>>, NoType)]
BoundedWildcard ==
    [pattern_type |-> "extends", type |-> ReferenceType("S", Dimensions(0), <<>>, NoType)]

\* The argument lists of a link: none, one or two arguments.
ArgumentLists ==
    {<<>>, <<Wildcard>>, <<ArrayArgument>>, <<BoundedWildcard>>,
     <<Wildcard, ArrayArgument>>, <<ArrayArgument, BoundedWildcard>>}

\* The names of the links of a chain, outermost first.
LinkName(depth) == <<"A", "B", "C", "D">>[depth]

\* The chains of at most n links below an outer link at this depth; javalang
\* keeps the dimensions on the outermost link only.
RECURSIVE SubTypes(_, _)
SubTypes(depth, n) ==
    IF n = 0 THEN {NoType}
    ELSE {NoType} \cup
         {ReferenceType(LinkName(depth), Dimensions(0), args, sub) :
            args \in ArgumentLists, sub \in SubTypes(depth + 1, n - 1)}

\* The types handed to _build_type_node: reference types of up to MaxChain
\* links and MaxDims dimensions, and the basic type int with dimensions.
TypeTrees ==
    {ReferenceType(LinkName(1), Dimensions(n), args, sub) :
        n \in 0..MaxDims, args \in ArgumentLists,
        sub \in SubTypes(2, MaxChain - 1)}
    \cup {[kind |-> "basic", name |-> "int", dimensions |-> Dimensions(n)] :
            n \in 0..MaxDims}

\* nodes.Text(text, text); the text as its tokens
Text(tokens) == [kind |-> "text", text |-> tokens, target |-> <<>>]

\* The pending_xref _build_ref_node(target) returns, with the Text of the
\* link's name put in it.
RefNode(target, name) == [kind |-> "ref", text |-> <<name>>, target |-> target]

\* '[]' * len(typ.dimensions)
RECURSIVE Repeat(_, _)
Repeat(token, n) == IF n = 0 THEN <<>> ELSE <<token>> \o Repeat(token, n - 1)

\* formatter.output_type(typ).build() for a basic type: its name and one
\* '[]' for each dimension.
output_type(typ) == <<typ.name>> \o Repeat("[]", Len(typ.dimensions))

RECURSIVE build_type_node(_)
RECURSIVE build_type_chain(_, _, _)
RECURSIVE build_type_arguments(_, _)

\* The while loop as it would be with the dimensions put after the first
\* link instead of the last.
build_type_chain_dim_first(typ, target, dim) ==
    <<RefNode(target, typ.name)>>
    \o (IF typ.arguments # <<>>
        THEN <<Text(<<"<">>)>> \o build_type_arguments(typ.arguments, TRUE)
             \o <<Text(<<">">>)>>
        ELSE <<>>)
    \o (IF dim # <<>> THEN <<Text(dim)>> ELSE <<>>)
    \o (IF typ.sub_type # NoType
        THEN <<Text(<<".">>)>>
             \o build_type_chain(typ.sub_type,
                                 target \o <<".", typ.sub_type.name>>, <<>>)
        ELSE <<>>)

\* _build_type_node's while loop from the link typ on: the link's reference,
\* its arguments, then the rest of the chain or the dimensions.
build_type_chain(typ, target, dim) ==
    <<RefNode(target, typ.name)>>
    \o (IF typ.arguments # <<>>
        THEN <<Text(<<"<">>)>> \o build_type_arguments(typ.arguments, TRUE)
             \o <<Text(<<">">>)>>
        ELSE <<>>)
    \o (IF typ.sub_type # NoType
        THEN <<Text(<<".">>)>>
             \o build_type_chain(typ.sub_type,
                                 target \o <<".", typ.sub_type.name>>, dim)
        ELSE IF dim # <<>> THEN <<Text(dim)>> ELSE <<>>)

\* The for loop over typ.arguments.
build_type_arguments(arguments, first) ==
    IF arguments = <<>> THEN <<>>
    ELSE (IF first THEN <<>> ELSE <<Text(<<",", " ">>)>>)
         \o (IF Head(arguments).pattern_type = "?"
             THEN <<Text(<<"?">>)>>
             ELSE (IF Head(arguments).pattern_type # "None"
                   THEN <<Text(<<"?", " ", Head(arguments).pattern_type, " ">>)>>
                   ELSE <<>>)
                  \o build_type_node(Head(arguments).type))
         \o build_type_arguments(Tail(arguments), FALSE)

\* JavaObject._build_type_node
build_type_node(typ) ==
    IF typ.kind = "reference"
    THEN build_type_chain(typ, <<typ.name>>, Repeat("[]", Len(typ.dimensions)))
    ELSE <<Text(output_type(typ))>>

\* A signature handler calls _build_type_node for a type of the signature.
render_type(typ) ==
    /\ type_tree' = typ
    /\ parts' = build_type_node(typ)
    /\ UNCHANGED <<domain_vars, apidoc_vars>>

\* ------------------------------------------------------- apidoc: the driver

\* The Java source files of the input tree and the document each compiles to.
SourceFiles == {"F", "G"}
DocumentPackage == "p"
\* What javalang.parse.parse and the compiler do with a source file.
FileOutcomes == {"ok", "parse_error", "compile_error"}
\* find_source_files' result: some of the files, in the order os.walk met them.
SourceLists ==
    {<<>>} \cup {<<f>> : f \in SourceFiles} \cup
    {<<f, g>> : <<f, g>> \in {x \in SourceFiles \X SourceFiles : x[1] # x[2]}}

NoOpts == [force |-> FALSE, update |-> FALSE, notoc |-> FALSE, cache_dir |-> FALSE]
AllOpts == [force : BOOLEAN, update : BOOLEAN, notoc : BOOLEAN, cache_dir : BOOLEAN]

\* The output paths, below opts.destdir.
DocumentPath(f) == DocumentPackage \o "/" \o f
PackageIndexPath == DocumentPackage \o "/package-index"
TocPath == "packages"

\* What the driver's steps leave alone.
ApidocFrame == UNCHANGED <<domain_vars, render_vars>>

\* main up to its call of generate_documents, for a tree whose source files
\* are files and fare as outcomes says.
main(o, files, outcomes) ==
    /\ pc \in {"idle", "done", "raised", "exit"}
    /\ opts' = o
    /\ source_files' = [i \in 1..Len(files) |->
                          [file |-> files[i], outcome |-> outcomes[files[i]]]]
    /\ file_index' = 1
    /\ documents' = {}
    /\ handled' = {}
    /\ written' = {}
    /\ pc' = "generate"
    /\ UNCHANGED outfiles
    /\ ApidocFrame

\* generate_from_source_file: "cache" when the cache file is the newer one,
\* else the outcome of parsing and compiling; an exception is raised again.
generate_from_source_file(source, cached) ==
    IF opts.cache_dir /\ cached THEN "ok" ELSE source.outcome

\* generate_documents' loop as it would be if it caught the exception of a
\* source file and went on to the next one.
generate_documents_skipping(cached) ==
    /\ pc = "generate"
    /\ file_index <= Len(source_files)
    /\ documents' =
         IF generate_from_source_file(source_files[file_index], cached) = "ok"
         THEN documents \cup {source_files[file_index].file}
         ELSE documents
    /\ file_index' = file_index + 1
    /\ pc' = "generate"
    /\ UNCHANGED <<opts, source_files, handled, written, outfiles>>
    /\ ApidocFrame

\* One turn of generate_documents' loop.  An exception leaves
\* generate_documents and main: the run ends with a traceback.
generate_documents(cached) ==
    /\ pc = "generate"
    /\ file_index <= Len(source_files)
    /\ IF generate_from_source_file(source_files[file_index], cached) = "ok"
       THEN /\ documents' = documents \cup {source_files[file_index].file}
            /\ file_index' = file_index + 1
            /\ pc' = "generate"
       ELSE /\ pc' = "raised"
            /\ UNCHANGED <<documents, file_index>>
    /\ UNCHANGED <<opts, source_files, handled, written, outfiles>>
    /\ ApidocFrame

\* generate_documents returns and main calls write_documents.
generate_documents_return ==
    /\ pc = "generate"
    /\ file_index > Len(source_files)
    /\ pc' = "write_documents"
    /\ UNCHANGED <<opts, source_files, file_index, documents, handled, written, outfiles>>
    /\ ApidocFrame

\* One turn of write_documents' first loop, for document d; dest_newer is
\* whether the destination file is newer than the source file.
write_document(d, dest_newer) ==
    /\ pc = "write_documents"
    /\ d \in documents \ handled
    /\ IF DocumentPath(d) \in outfiles /\ ~(opts.force \/ opts.update)
       THEN /\ pc' = "exit"
            /\ UNCHANGED <<handled, written, outfiles>>
       ELSE /\ handled' = handled \cup {d}
            /\ pc' = "write_documents"
            /\ IF opts.update /\ DocumentPath(d) \in outfiles /\ dest_newer
               THEN UNCHANGED <<written, outfiles>>
               ELSE /\ written' = written \cup {DocumentPath(d)}
                    /\ outfiles' = outfiles \cup {DocumentPath(d)}
    /\ UNCHANGED <<opts, source_files, file_index, documents>>
    /\ ApidocFrame

\* write_documents' second loop: the package-index of the one package, and
\* the return to main, which goes on to write_toc unless --no-toc.
write_package_index ==
    /\ pc = "write_documents"
    /\ handled = documents
    /\ IF documents = {}
       THEN /\ pc' = IF opts.notoc THEN "done" ELSE "write_toc"
            /\ UNCHANGED <<written, outfiles>>
       ELSE IF PackageIndexPath \in outfiles /\ ~(opts.force \/ opts.update)
       THEN /\ pc' = "exit"
            /\ UNCHANGED <<written, outfiles>>
       ELSE /\ written' = written \cup {PackageIndexPath}
            /\ outfiles' = outfiles \cup {PackageIndexPath}
            /\ pc' = IF opts.notoc THEN "done" ELSE "write_toc"
    /\ UNCHANGED <<opts, source_files, file_index, documents, handled>>
    /\ ApidocFrame

\* write_toc as it would be without its look at the file system.
write_toc_overwriting ==
    /\ pc = "write_toc"
    /\ written' = written \cup {TocPath}
    /\ outfiles' = outfiles \cup {TocPath}
    /\ pc' = "done"
    /\ UNCHANGED <<opts, source_files, file_index, documents, handled>>
    /\ ApidocFrame

\* write_toc
write_toc ==
    /\ pc = "write_toc"
    /\ IF TocPath \in outfiles /\ ~(opts.force \/ opts.update)
       THEN /\ pc' = "exit"
            /\ UNCHANGED <<written, outfiles>>
       ELSE /\ written' = written \cup {TocPath}
            /\ outfiles' = outfiles \cup {TocPath}
            /\ pc' = "done"
    /\ UNCHANGED <<opts, source_files, file_index, documents, handled>>
    /\ ApidocFrame

\* ---------------------------------------------------------- specification

Constructed ==
    /\ objects = <<>>
    /\ docname = NoDoc
    /\ temp_package = None
    /\ temp_outertype = <<>>
    /\ temp_imports = EmptyImports
    /\ env_imports = [exists |-> FALSE, java_imports |-> EmptyImports]
    /\ document_ids = {}
    /\ warnings = 0
    /\ node = NoNode
    /\ result = NoResult
    /\ purged = 0
    /\ open_directives = <<>>
    /\ type_tree = NoType
    /\ parts = <<>>
    /\ opts = NoOpts
    /\ source_files = <<>>
    /\ file_index = 1
    /\ documents = {}
    /\ handled = {}
    /\ written = {}
    /\ outfiles = {}
    /\ pc = "idle"

Init == Constructed /\ registered = NoHistory

\* The options a declaration directive is written with, as
\* <<noindex, package, outertype>>: none, or one of the three.
Options == {<<FALSE, None, None>>, <<TRUE, None, None>>}
             \cup {<<FALSE, package, None>> : package \in Packages}
             \cup {<<FALSE, None, type>> : type \in TypeNames}

\* Reading, removing and re-reading documents that declare packages, types,
\* fields, methods and constructors, with and without options, signatures
\* that fail to parse included.
Next ==
    \/ \E d \in Docs : read_doc(d)
    \/ finish_doc
    \/ \E d \in Docs : remove_doc(d)
    \/ \E package \in Packages : java_package(package, FALSE)
    \/ \E outcome \in ParseFailures, n \in TypeNames :
            java_type(outcome, n, FALSE, None, None)
    \/ \E n \in TypeNames, o \in Options : java_type("ok", n, o[1], o[2], o[3])
    \/ end_type
    \/ \E outcome \in ParseFailures, ds \in FieldDeclarators :
            java_field(outcome, ds, FALSE, None, None)
    \/ \E ds \in FieldDeclarators, o \in Options :
            java_field("ok", ds, o[1], o[2], o[3])
    \/ \E outcome \in ParseFailures, n \in MemberNames, ps \in ParamLists :
            java_method(outcome, n, ps, FALSE, None, None)
    \/ \E n \in MemberNames, ps \in ParamLists, o \in Options :
            java_method("ok", n, ps, o[1], o[2], o[3])
    \/ \E outcome \in ParseFailures, n \in TypeNames, ps \in ParamLists :
            java_constructor(outcome, n, ps, FALSE, None, None)
    \/ \E n \in TypeNames, ps \in ParamLists, o \in Options :
            java_constructor("ok", n, ps, o[1], o[2], o[3])

Spec == Init /\ [][Next]_vars

\* Reading, removing and re-reading documents that declare packages, imports,
\* types and constructors, and that refer to them; between
\* reads the build resolves the references.
XrefNext ==
    \/ \E d \in Docs : read_doc(d)
    \/ finish_doc
    \/ \E d \in Docs : remove_doc(d)
    \/ \E package \in Packages, noindex \in BOOLEAN : java_package(package, noindex)
    \/ \E package \in Packages, typename \in ImportNames : java_import(package, typename)
    \/ \E n \in TypeNames, noindex \in BOOLEAN : java_type("ok", n, noindex, None, None)
    \/ end_type
    \/ \E n \in TypeNames, ps \in ParamLists :
            java_constructor("ok", n, ps, FALSE, None, None)
    \/ \E t \in RawTargets : process_link(t)
    \/ \E t \in Targets : build_ref_node(t, None, None)
    \/ \E t \in Targets : doc_field_xref(t)
    \/ \E typ \in Roles, ext1 \in BOOLEAN, ext2 \in BOOLEAN : resolve_xref(typ, ext1, ext2)

XrefSpec == Init /\ [][XrefNext]_vars

\* Runs of apidoc, one after the other, over the same output directory.
ApidocNext ==
    \/ \E o \in AllOpts, files \in SourceLists, outcomes \in [SourceFiles -> FileOutcomes] :
            main(o, files, outcomes)
    \/ \E cached \in BOOLEAN : generate_documents(cached)
    \/ generate_documents_return
    \/ \E d \in SourceFiles, dest_newer \in BOOLEAN : write_document(d, dest_newer)
    \/ write_package_index
    \/ write_toc

ApidocSpec == Init /\ [][ApidocNext]_vars

\* Documents a and b: a declares the packages, imports and types, b holds
\* the references; between reads the build resolves the references.
ImportNext ==
    \/ \E d \in Docs : read_doc(d)
    \/ finish_doc
    \/ \E package \in Packages : docname = "a" /\ java_package(package, FALSE)
    \/ \E package \in Packages, typename \in ImportNames :
            docname = "a" /\ java_import(package, typename)
    \/ \E n \in TypeNames : docname = "a" /\ java_type("ok", n, FALSE, None, None)
    \/ end_type
    \/ \E t \in RawTargets : docname = "b" /\ process_link(t)
    \/ \E t \in Targets : docname = "b" /\ doc_field_xref(t)
    \/ \E typ \in Roles, ext1 \in BOOLEAN, ext2 \in BOOLEAN : resolve_xref(typ, ext1, ext2)

ImportSpec == Init /\ [][ImportNext]_vars

\* The types a document nests in one another.
ScopeTypeNames == {<<"A">>, <<"B">>}

\* Documents whose declarations have contents that hold further
\* declarations: types in types, types in the contents of members, members
\* in types, with signatures that fail to parse among them.
ScopeNext ==
    \/ \E d \in Docs : read_doc(d)
    \/ finish_doc
    \/ \E n \in ScopeTypeNames : java_type("ok", n, TRUE, None, None)
    \/ \E outcome \in ParseFailures, n \in ScopeTypeNames :
            java_type(outcome, n, TRUE, None, None)
    \/ \E n \in MemberNames, ps \in ParamLists, has_content \in BOOLEAN :
            java_method_directive("ok", n, ps, TRUE, None, None, has_content)
    \/ \E outcome \in ParseFailures, n \in MemberNames, ps \in ParamLists :
            java_method_directive(outcome, n, ps, TRUE, None, None, TRUE)
    \/ \E ds \in FieldDeclarators, has_content \in BOOLEAN :
            java_field_directive("ok", ds, TRUE, None, None, has_content)
    \/ \E n \in ScopeTypeNames, ps \in ParamLists, has_content \in BOOLEAN :
            java_constructor_directive("ok", n, ps, TRUE, None, None, has_content)
    \/ leave_content

ScopeSpec == Init /\ [][ScopeNext]_vars

\* The parameter lists of the methods of NameSpec.
NameParamLists == {<<>>, <<<<"i">>, <<"S">>>>}
\* The :package: and :outertype: options of its constructors, as
\* <<package, outertype>>: none given, one given empty, both given a name.
NameOptions == {<<None, None>>, <<<<>>, None>>, <<None, <<>>>>, <<<<"p">>, <<"A">>>>}

\* Document a, read and read again: a package, type A and in it type B, and
\* at every depth methods, fields, and constructors written with and without
\* :package: and :outertype: options.
NameNext ==
    \/ read_doc("a")
    \/ finish_doc
    \/ \E package \in Packages : java_package(package, TRUE)
    \/ temp_outertype = <<>> /\ java_type("ok", <<"A">>, TRUE, None, None)
    \/ \E noindex \in BOOLEAN :
            temp_outertype = <<<<"A">>>> /\ java_type("ok", <<"B">>, noindex, None, None)
    \/ leave_content
    \/ \E n \in MemberNames, ps \in NameParamLists :
            java_method("ok", n, ps, FALSE, None, None)
    \/ \E n \in TypeNames, o \in NameOptions :
            java_constructor("ok", n, <<>>, FALSE, o[1], o[2])
    \/ \E ds \in FieldDeclarators : java_field("ok", ds, FALSE, None, None)

NameSpec == Init /\ [][NameNext]_vars

\* A signature handler renders one of the types of its signature.
TypeNext == \E typ \in TypeTrees : type_tree = NoType /\ render_type(typ)

TypeSpec == Init /\ [][TypeNext]_vars

\* Documents a and b, read, read again and removed, that declare the same
\* package, type and method, with the history of their registrations kept.
HistoryInit == Constructed /\ registered = {}

HistoryNext ==
    \/ \E d \in Docs : read_doc(d)
    \/ finish_doc
    \/ \E d \in Docs : remove_doc(d)
    \/ \E package \in Packages : java_package(package, FALSE)
    \/ \E n \in TypeNames, noindex \in BOOLEAN : java_type("ok", n, noindex, None, None)
    \/ end_type
    \/ \E n \in MemberNames, ps \in ParamLists :
            java_method("ok", n, ps, FALSE, None, None)

HistorySpec == HistoryInit /\ [][HistoryNext]_vars

\* ------------------------------------------------------------------ claims

\* The fullname a declaration directive with these options registers name under.
DeclaredName(name, opt_package, opt_outertype) ==
    FullName(get_package(opt_package), get_type(opt_outertype), name)

\* The step is a directive of the given kind that registers fullname.
RegistersAs(kind, fullname) ==
    CASE kind = "package" ->
            \E noindex \in BOOLEAN : java_package(fullname, noindex)
      [] kind = "type" ->
            \E n \in TypeNames, o \in Options :
                /\ ~o[1]
                /\ DeclaredName(handle_type_signature(n), o[2], o[3]) = fullname
                /\ java_type("ok", n, o[1], o[2], o[3])
      [] kind = "field" ->
            \E ds \in FieldDeclarators, o \in Options :
                /\ ~o[1]
                /\ DeclaredName(handle_field_signature(ds), o[2], o[3]) = fullname
                /\ java_field("ok", ds, o[1], o[2], o[3])
      [] kind = "constructor" ->
            \E n \in TypeNames, ps \in ParamLists, o \in Options :
                /\ ~o[1]
                /\ DeclaredName(handle_constructor_signature(n, ps), o[2], o[3]) = fullname
                /\ java_constructor("ok", n, ps, o[1], o[2], o[3])
      [] kind = "method" ->
            \E n \in MemberNames, ps \in ParamLists, o \in Options :
                /\ ~o[1]
                /\ DeclaredName(handle_method_signature(n, ps), o[2], o[3]) = fullname
                /\ java_method("ok", n, ps, o[1], o[2], o[3])

\* C1: for every symbol kind, a directive that registers a fullname already
\* registered from another document emits exactly one duplicate warning and
\* leaves the entry of that fullname pointing at the document being read.
C1_DuplicateWarnsOnceLastWins ==
    [][\A i \in 1..Len(objects), kind \in Kinds :
         (objects[i].docname # docname /\ RegistersAs(kind, objects[i].fullname))
         => /\ warnings' = 1
            /\ HasObject(objects', objects[i].fullname)
            /\ GetObject(objects', objects[i].fullname).docname = docname]_vars

\* C1, as the code has it: a directive that registers a fullname already
\* registered from another document leaves the entry of that fullname
\* pointing at the document being read; a type, field, constructor or method
\* directive emits exactly one duplicate warning, a package directive none.
C1_DuplicateLastWinsWarnsUnlessPackage ==
    [][\A i \in 1..Len(objects), kind \in Kinds :
         (objects[i].docname # docname /\ RegistersAs(kind, objects[i].fullname))
         => /\ warnings' = IF kind = "package" THEN 0 ELSE 1
            /\ HasObject(objects', objects[i].fullname)
            /\ GetObject(objects', objects[i].fullname).docname = docname]_vars

\* A declaration directive has just registered a fullname another document
\* had registered: the warning is out and the entry names this document.
C1_Witness ==
    /\ warnings = 1
    /\ \E i \in 1..Len(objects) :
         /\ objects[i].docname = docname
         /\ objects[i].fullname \in document_ids

\* C2: a clear_doc(d) step (a document removed, or read again) leaves in the
\* registry exactly the entries it held for documents other than d, unchanged.
C2_ClearDocDropsExactlyTheDocument ==
    [][\A d \in Docs :
         (remove_doc(d) \/ read_doc(d))
         => /\ \A i \in 1..Len(objects') :
                 /\ objects'[i].docname # d
                 /\ \E j \in 1..Len(objects) : objects[j] = objects'[i]
            /\ \A j \in 1..Len(objects) :
                 objects[j].docname # d
                 => \E i \in 1..Len(objects') : objects'[i] = objects[j]]_vars

\* clear_doc has just deleted entries and has kept entries of another document.
C2_Witness == purged >= 1 /\ Len(objects) >= 1

\* The external queries and the outcome belong to a resolve_xref call.
Resolved == result.outcome # "none"

\* C3: a resolve_xref call whose target is a registered fullname returns the
\* entry of that very fullname, whatever the node's keys and the role are.
C3_ExactMatchAlwaysWins ==
    (Resolved /\ HasObject(objects, node.target))
    => (result.outcome = "internal" /\ result.fullname = node.target)

\* The target is registered and so is the package-prefixed target, the role
\* is 'ref', and the call returned the target's own entry.
C3_Witness ==
    /\ Resolved
    /\ result.typ = "ref"
    /\ HasObject(objects, node.target)
    /\ Truthy(node.package)
    /\ HasObject(objects, node.package \o <<".">> \o node.target)
    /\ result.fullname = node.target

\* C4: for every role, when the target is not registered, the registered
\* name package.target is returned, and failing that the registered name
\* package.outertype.target, package and outertype being those of the node.
C4_PackageThenOuterType ==
    (Resolved /\ ~HasObject(objects, node.target) /\ Truthy(node.package))
    => LET by_package == node.package \o <<".">> \o node.target
           by_type == node.package \o <<".">> \o node.outertype \o <<".">> \o node.target
       IN  /\ HasObject(objects, by_package)
              => (result.outcome = "internal" /\ result.fullname = by_package)
           /\ (~HasObject(objects, by_package) /\ Truthy(node.outertype)
               /\ HasObject(objects, by_type))
              => (result.outcome = "internal" /\ result.fullname = by_type)

\* The call reached the suffix loop: the steps before it found nothing.
ReachedSuffixLoop ==
    /\ Resolved
    /\ ~HasObject(objects, node.target)
    /\ ~(Truthy(result.package)
         /\ HasObject(objects, result.package \o <<".">> \o node.target))
    /\ ~(Truthy(result.package) /\ Truthy(node.outertype)
         /\ HasObject(objects, result.package \o <<".">> \o node.outertype
                                 \o <<".">> \o node.target))

\* The places in the registry whose fullname ends in "." + target.
SuffixMatches == {i \in 1..Len(objects) :
                    EndsWith(objects[i].fullname, <<".">> \o node.target)}

\* The places whose basename ends in "." + target without its key.
BasenameMatches == {i \in 1..Len(objects) :
                      EndsWith(objects[i].basename,
                               PartitionHead(<<".">> \o node.target, "("))}

\* C5: in the suffix loop a fullname ending in "." + target is returned
\* whenever the registry holds one; otherwise the last basename match in
\* iteration order is returned; a basename match is returned only then.
C5_SuffixBeforeLastBasename ==
    ReachedSuffixLoop
    => /\ SuffixMatches # {}
          => /\ result.outcome = "internal"
             /\ \E i \in SuffixMatches : result.fullname = objects[i].fullname
       /\ (SuffixMatches = {} /\ BasenameMatches # {})
          => /\ result.outcome = "internal"
             /\ result.fullname =
                  objects[CHOOSE i \in BasenameMatches :
                            \A j \in BasenameMatches : j <= i].fullname
       /\ (SuffixMatches = {} /\ BasenameMatches = {})
          => result.outcome # "internal"

\* No fullname ends in "." + target, two basenames do, and the call
\* returned the later of the two.
C5_Witness ==
    /\ ReachedSuffixLoop
    /\ SuffixMatches = {}
    /\ Cardinality(BasenameMatches) >= 2
    /\ result.fullname = objects[Len(objects)].fullname

\* C6: extdoc.get_javadoc_ref is not called when an internal step resolves
\* the target; otherwise it is called once, with the target, when the
\* reference is not imported, and when it is imported and that call fails it
\* is called once more, with package + "." + target.
C6_ExternalCalls ==
    Resolved
    => /\ result.outcome = "internal" => result.calls = <<>>
       /\ (result.outcome # "internal" /\ result.imported # "True")
          => result.calls = <<node.target>>
       /\ (result.outcome # "internal" /\ result.imported = "True"
           /\ ~(result.outcome = "external" /\ Len(result.calls) = 1))
          => result.calls = <<node.target,
                              result.package \o <<".">> \o node.target>>

\* C7: a resolve_xref call that finds neither an internal nor an external
\* match returns None: it never raises.
C7_UnresolvedReturnsNone ==
    (Resolved /\ result.outcome \notin {"internal", "external"})
    => result.outcome = "None"

\* C8: (document a declares the imports, document b holds the references and
\* declares none) resolve_xref works with the package and the imported flag
\* the reference got in its own document.
C8_ImportsStayInTheirDocument ==
    Resolved => (result.package = node.package /\ result.imported = node.imported)

\* C9: a java:field directive whose signature declares several variables
\* fails: it returns no name and registers nothing.
C9_SeveralDeclaratorsRegisterNothing ==
    [][\A ds \in FieldDeclarators, o \in Options :
         (Len(ds) > 1 /\ java_field("ok", ds, o[1], o[2], o[3]))
         => UNCHANGED <<objects, document_ids>>]_vars

\* C10: a run in which a source file failed to parse or compile has still
\* written the document of every source file that parses and compiles.
C10_FailureDoesNotAbortTheRun ==
    pc = "raised"
    => \A i \in 1..Len(source_files) :
         source_files[i].outcome = "ok"
         => DocumentPath(source_files[i].file) \in written

\* C10, as the code has it: a source file that fails to parse or compile ends
\* the run where it is: the run has written nothing, and a run gets to
\* writing only with a document for every one of its source files.
C10_FailureEndsTheRun ==
    /\ pc = "raised"
       => /\ written = {}
          /\ handled = {}
          /\ file_index \in 1..Len(source_files)
          /\ source_files[file_index].outcome # "ok"
          /\ documents = {source_files[i].file : i \in 1..(file_index - 1)}
    /\ pc \in {"write_documents", "write_toc", "done", "exit"}
       => documents = {source_files[i].file : i \in 1..Len(source_files)}

\* The run ended at a failing source file with a good one still to come.
C10_Witness ==
    /\ pc = "raised"
    /\ file_index < Len(source_files)
    /\ source_files[file_index + 1].outcome = "ok"

\* The names of the type directives among the directives that are in their
\* content, outermost first.
RECURSIVE EnclosingTypes(_)
EnclosingTypes(frames) ==
    IF frames = <<>> THEN <<>>
    ELSE (IF frames[1].objtype = "type" THEN <<frames[1].names[1]>> ELSE <<>>)
         \o EnclosingTypes(Tail(frames))

\* C11: the outer-type chain is the names of the type directives whose
\* content is being read, outermost first (a type pushes its name, members
\* and failed signatures push nothing), and leaving a directive's content
\* gives the chain the value it had when the directive began.
C11_OuterTypeChainIsAStack ==
    /\ [](temp_outertype = EnclosingTypes(open_directives))
    /\ [][leave_content
          => temp_outertype' = open_directives[Len(open_directives)].chain]_vars

\* Two types are open, one in the other, with a member's content between or
\* around them.
C11_Witness ==
    /\ Len(temp_outertype) = 2
    /\ \E i \in 1..Len(open_directives) : open_directives[i].objtype # "type"

\* C12: a resolve_xref call (the one step that leaves a result) leaves the
\* registry as it found it, whatever the role, the reference and the answers
\* of the external resolver, and whether it resolves internally, externally
\* or not at all.
C12_ResolutionLeavesTheRegistry ==
    [][(result'.outcome # "none") => objects' = objects]_vars

\* A reference was resolved to an entry of a registry that holds another
\* entry too.
C12_Witness ==
    /\ Resolved
    /\ result.outcome = "internal"
    /\ Len(objects) = 2

\* The names of an outer-type chain with a dot between each two of them.
RECURSIVE Dotted(_)
Dotted(names) ==
    IF names = <<>> THEN <<>>
    ELSE IF Len(names) = 1 THEN names[1]
    ELSE Dotted(SubSeq(names, 1, Len(names) - 1)) \o <<".">> \o names[Len(names)]

\* The package and the outer-type chain of a declaration: those its
\* directive's options give it, else those of the place it is written in.
DeclaredPackage(opt_package) ==
    IF opt_package = None THEN temp_package ELSE opt_package
DeclaredChain(opt_outertype) ==
    IF opt_outertype = None THEN Dotted(temp_outertype) ELSE opt_outertype

\* The parameter types with ", " between each two of them.
RECURSIVE CommaList(_)
CommaList(params) ==
    IF params = <<>> THEN <<>>
    ELSE IF Len(params) = 1 THEN params[1]
    ELSE CommaList(SubSeq(params, 1, Len(params) - 1))
         \o <<",", " ">> \o params[Len(params)]

\* A member's name with its parenthesized key.
KeyedName(name, params) == name \o <<"(">> \o CommaList(params) \o <<")">>

\* Package, outer-type chain and name with dots between them; an absent or
\* empty package or chain gives neither a component nor a dot.
QualifiedName(package, chain, name) ==
    (IF package \in {None, <<>>} THEN <<>> ELSE package \o <<".">>)
    \o (IF chain = <<>> THEN <<>> ELSE chain \o <<".">>)
    \o name

\* The step registers fullname, and nothing else: fullname is in the
\* registry for the document being read, and every other entry is an entry
\* that was there.
RegistersOnly(fullname) ==
    /\ HasObject(objects', fullname)
    /\ GetObject(objects', fullname).docname = docname
    /\ \A i \in 1..Len(objects') :
         objects'[i].fullname # fullname
         => /\ HasObject(objects, objects'[i].fullname)
            /\ GetObject(objects, objects'[i].fullname) = objects'[i]

\* C13: a type, method, constructor or field directive registers its
\* declaration under package, outer-type chain and name (methods and
\* constructors with their parenthesized key) joined by ".", an absent or
\* empty package or chain contributing neither a component nor a dot.
C13_RegisteredNameIsTheDottedPath ==
    [][/\ java_type("ok", <<"B">>, FALSE, None, None)
          => RegistersOnly(QualifiedName(DeclaredPackage(None),
                                         DeclaredChain(None), <<"B">>))
       /\ \A n \in MemberNames, ps \in NameParamLists :
            java_method("ok", n, ps, FALSE, None, None)
            => RegistersOnly(QualifiedName(DeclaredPackage(None),
                                           DeclaredChain(None), KeyedName(n, ps)))
       /\ \A n \in TypeNames, o \in NameOptions :
            java_constructor("ok", n, <<>>, FALSE, o[1], o[2])
            => RegistersOnly(QualifiedName(DeclaredPackage(o[1]),
                                           DeclaredChain(o[2]), KeyedName(n, <<>>)))
       /\ \A ds \in FieldDeclarators :
            java_field("ok", ds, FALSE, None, None)
            => RegistersOnly(QualifiedName(DeclaredPackage(None),
                                           DeclaredChain(None), ds[1]))]_vars

\* A method with two parameters is registered inside type B inside type A
\* of package p.
C13_Witness ==
    /\ temp_outertype = <<<<"A">>, <<"B">>>>
    /\ HasObject(objects, <<"p", ".", "A", ".", "B", ".", "m", "(", "i", ",", " ", "S", ")">>)

\* The text of rendered nodes: their tokens one after another.
RECURSIVE Rendered(_)
Rendered(nodes) ==
    IF nodes = <<>> THEN <<>> ELSE Head(nodes).text \o Rendered(Tail(nodes))

\* How many of the tokens are "[]".
ArrayTokens(tokens) == Cardinality({i \in 1..Len(tokens) : tokens[i] = "[]"})

\* The array dimensions written in a list of generic arguments.
RECURSIVE ArgumentListDimensions(_)
ArgumentListDimensions(arguments) ==
    IF arguments = <<>> THEN 0
    ELSE (IF Head(arguments).type = NoType THEN 0
          ELSE Len(Head(arguments).type.dimensions))
         + ArgumentListDimensions(Tail(arguments))

\* The array dimensions written in the generic arguments of a chain.
RECURSIVE ArgumentDimensions(_)
ArgumentDimensions(typ) ==
    IF typ = NoType THEN 0
    ELSE ArgumentListDimensions(typ.arguments) + ArgumentDimensions(typ.sub_type)

\* C14: the rendering of a reference type whose outermost link has N
\* dimensions ends with exactly N "[]" tokens, and the only other "[]" in it
\* are those of its generic arguments: none of the N stands between links.
C14_DimensionsTrailTheChain ==
    type_tree.kind = "reference"
    => LET text == Rendered(parts)
           n == Len(type_tree.dimensions)
       IN  /\ Len(text) > n
           /\ \A i \in 1..n : text[Len(text) - n + i] = "[]"
           /\ text[Len(text) - n] # "[]"
           /\ ArrayTokens(text) = n + ArgumentDimensions(type_tree)

\* A two-dimensional array of a nested type whose two links both have
\* generic arguments, an array among them, was rendered.
C14_Witness ==
    /\ type_tree.kind = "reference"
    /\ Len(type_tree.dimensions) = 2
    /\ type_tree.sub_type # NoType
    /\ type_tree.arguments # <<>>
    /\ type_tree.sub_type.arguments # <<>>
    /\ ArgumentDimensions(type_tree) > 0
    /\ parts # <<>>

\* The run was started with neither --force nor --update.
Cautious == ~(opts.force \/ opts.update)

\* The step ends the run with status 1 and writes nothing.
ExitsUnwritten == pc' = "exit" /\ UNCHANGED <<written, outfiles>>

\* C15: a run without --force and --update writes no file that exists (so
\* none that existed before the run), and the step that meets an existing
\* type document, package-index or table of contents ends the run with
\* status 1 and leaves the files as they are.
C15_ExistingFilesAreKept ==
    [][Cautious
       => /\ (written' \ written) \cap outfiles = {}
          /\ \A d \in SourceFiles, dest_newer \in BOOLEAN :
               (write_document(d, dest_newer) /\ DocumentPath(d) \in outfiles)
               => ExitsUnwritten
          /\ (write_package_index /\ documents # {} /\ PackageIndexPath \in outfiles)
             => ExitsUnwritten
          /\ (write_toc /\ TocPath \in outfiles) => ExitsUnwritten]_vars

\* A run without --force and --update wrote its documents, met a file of an
\* earlier run and exited.
C15_Witness ==
    /\ pc = "exit"
    /\ Cautious
    /\ written # {}
    /\ outfiles \ written # {}

\* The registry as the names it holds, each with the document of its entry.
RegistryMap == {<<objects[i].fullname, objects[i].docname>> : i \in 1..Len(objects)}

\* The registrations no later registration of another document superseded.
LatestRegistrations == {<<r[1], r[2]>> : r \in {x \in registered : ~x[3]}}

\* C16: the registry holds a name, once, exactly when the document that
\* registered it last has not been cleared since, and the entry names that
\* document; a name whose last registering document was cleared is absent,
\* though a document not cleared since registered it earlier.
C16_RegistryIsTheLatestRegistrations ==
    /\ RegistryMap = LatestRegistrations
    /\ \A i, j \in 1..Len(objects) :
         objects[i].fullname = objects[j].fullname => i = j

\* A name is absent because the document that registered it last was
\* cleared, while the document that registered it before is still there.
C16_Witness ==
    \E r \in registered : r[3] /\ ~HasObject(objects, r[1])

====
